---- MODULE Spec2Model ----
(***************************************************************************)
(* Model of drivers/store/redis/store.go: the fixed-window counter that    *)
(* Store.GetVal and Store.Peek keep in one Redis key.                      *)
(*                                                                         *)
(* Every store round trip of a call is one action, so concurrent callers   *)
(* interleave between the commands exactly where the network lets them.    *)
(* Time is counted in whole clock units; the windows are a positive whole  *)
(* number of units.  A key with expiration instant e exists while          *)
(* now <= e and is reclaimed by the store when the clock passes e.         *)
(* A store I/O failure is modelled as the command not reaching the store;  *)
(* it drops the connection and with it the WATCH of the transaction.       *)
(***************************************************************************)
EXTENDS Integers, FiniteSets, Sequences, TLC

\* ---------------------------------------------------------------- bounds
MaxTime == 4      \* the clock runs from 0 to MaxTime
MaxCalls == 2     \* calls started in a run, over all callers
MaxBudget == 2    \* largest configured options.MaxRetry

Procs == {"a", "b"}             \* the concurrent callers
Windows == {1, 2}               \* rate.Period, in clock units
Amounts == {1}                  \* val; Store.Get passes 1
OptMaxRetry == 0..MaxBudget     \* options.MaxRetry, 0 being "not set"

\* ------------------------------------------------------ store primitives
\* PTTL's sentinels: the key holds no expiration / the key is absent.
NoExpire == -1
KeyAbsent == -2

\* The key as the store holds it.  integer tells whether the string held
\* is the decimal form of an integer, val being that integer; born is the
\* instant the counter came into existence (kept for the properties; no
\* command reads it).
Absent ==
    [exists |-> FALSE, val |-> 0, exp |-> NoExpire, born |-> 0,
     integer |-> TRUE]

\* The key after another system wrote a non-numeric string to it
\* (SET key "..."), which leaves it without an expiration.
Corrupted ==
    [exists |-> TRUE, val |-> 0, exp |-> NoExpire, born |-> 0,
     integer |-> FALSE]

\* The value at the key does not parse as an integer: INCRBY replies
\* "ERR value is not an integer", value.Int64() returns a syntax error.
NotInteger(s) == s.exists /\ ~s.integer

\* SetNX as the plain SETNX command, which sets no expiration.
SetNXWithoutExpiration(s, v, d, t) ==
    IF s.exists THEN s
    ELSE [exists |-> TRUE, val |-> v, exp |-> NoExpire, born |-> t,
          integer |-> TRUE]

\* rtx.SetNX(key, val, expiration): SET key val EX expiration NX.
SetNX(s, v, d, t) ==
    IF s.exists THEN s
    ELSE [exists |-> TRUE, val |-> v, exp |-> t + d, born |-> t,
          integer |-> TRUE]

\* IncrBy as a read followed by a write of the value read by another caller:
\* the update is lost.
IncrByLostUpdate(s, v, t) ==
    IF s.exists THEN s
    ELSE [exists |-> TRUE, val |-> v, exp |-> NoExpire, born |-> t,
          integer |-> TRUE]

\* IncrBy applied again by a retry.
IncrByTwice(s, v, t) ==
    IF s.exists THEN [s EXCEPT !.val = @ + v + v]
    ELSE [exists |-> TRUE, val |-> v + v, exp |-> NoExpire, born |-> t,
          integer |-> TRUE]

\* pipe.IncrBy(key, val): adds to the integer at key; an absent key counts
\* as 0 and is created without an expiration.
IncrBy(s, v, t) ==
    IF s.exists THEN [s EXCEPT !.val = @ + v]
    ELSE [exists |-> TRUE, val |-> v, exp |-> NoExpire, born |-> t,
          integer |-> TRUE]

\* pipe.PTTL(key).
PTTL(s, t) ==
    IF ~s.exists THEN KeyAbsent
    ELSE IF s.exp = NoExpire THEN NoExpire
    ELSE s.exp - t

\* pipe.Get(key) read through value.Int64(): the count is 0 on redis.Nil
\* and on a string that does not parse.
Get(s) == IF s.exists /\ s.integer THEN s.val ELSE 0

\* rtx.Expire(key, expiration): re-arms the time-to-live of an existing key.
Expire(s, d, t) == IF s.exists THEN [s EXCEPT !.exp = t + d] ELSE s

\* What peekValue would read from the store at instant t.
PeekObs(s, t) == [count |-> Get(s), ttl |-> PTTL(s, t)]

\* ------------------------------------------------------------------ state
VARIABLES
    now,        \* the clock
    store,      \* the counter key in Redis
    MaxRetry,   \* Store.MaxRetry
    window,     \* rate.Period of the limiter
    call,       \* per caller: the call in progress
    ret,        \* the call that returned in the last step, as it returned
    calls,      \* calls started so far
    faulty,     \* some call of the run met a store I/O failure
    reclaimed,  \* the store has reclaimed the expired key at least once
    overlap,    \* some call started while another one was in flight
    \* kept for the first window of the run, until the store reclaimed the key
    okCalls,    \* GetVal calls that returned success
    okSum,      \* sum of the amounts of those calls
    okCounts    \* the counts those calls returned

vars == <<now, store, MaxRetry, window, call, ret, calls, faulty, reclaimed,
          overlap, okCalls, okSum, okCounts>>

\* limiter.Context{}: what a failed call returns.
ZeroCtx == [count |-> 0, expiration |-> 0]

\* common.GetContextFromState(now, rate, expiration, count).
GetContextFromState(expiration, count) ==
    [count |-> count, expiration |-> expiration]

NoCall ==
    [pc |-> "idle", op |-> "none", val |-> 0, now |-> 0, i |-> 0,
     watch |-> "none", created |-> FALSE, count |-> 0, ttl |-> 0,
     err |-> "none", lctx |-> ZeroCtx,
     \* bookkeeping for the properties:
     \* first, found: the key as the call's first command and as its
     \*   committing command found it ("absent" / "present"), or
     \*   "malformed" once a command of the call met a value it cannot parse
     \* at, born: the instant of the commit, and the instant the counter it
     \*   committed to came into existence
     \* post: what a Peek right after the call's last command would read
     \* seqno: the place of a successful GetVal among those of the window
     \* conflicts, errors: attempts aborted by a conflict / failed otherwise
     \* applied, repairs: commits of the amount / expire-setting repairs
     first |-> "none", found |-> "none", at |-> 0, born |-> 0,
     post |-> [count |-> 0, ttl |-> 0], seqno |-> 0,
     conflicts |-> 0, errors |-> 0, applied |-> 0, repairs |-> 0]

Running(c) == c.pc # "idle"
Returned(c) == c.pc = "done"

\* NewStoreWithOptions: a configured MaxRetry <= 0 becomes 1.
NewStoreWithOptions(opt) == IF opt <= 0 THEN 1 ELSE opt

\* A run starts on an absent key, or right after an earlier GetVal(key, 1)
\* of another caller created the counter at instant 0, or on a key that
\* another system has overwritten.
Init ==
    /\ now = 0
    /\ \E opt \in OptMaxRetry : MaxRetry = NewStoreWithOptions(opt)
    /\ window \in Windows
    /\ store \in {Absent, SetNX(Absent, 1, window, 0), Corrupted}
    /\ call = [p \in Procs |-> NoCall]
    /\ ret = NoCall
    /\ calls = 0
    /\ faulty = FALSE
    /\ reclaimed = FALSE
    /\ overlap = FALSE
    /\ okCalls = Get(store)
    /\ okSum = Get(store)
    /\ okCounts = IF store.exists /\ store.integer THEN {Get(store)} ELSE {}

\* ---------------------------------------------------------------- helpers
\* A write to the key marks every transaction that watches it.
Touch(cs) ==
    [q \in Procs |->
        IF cs[q].watch = "clean" THEN [cs[q] EXCEPT !.watch = "dirty"]
        ELSE cs[q]]

\* A failed call returning the context it had computed along with err.
FailWithPartialState(c, e) ==
    [c EXCEPT !.pc = "done", !.err = e, !.watch = "none",
              !.lctx = GetContextFromState(c.now + window, c.count)]

\* client.Watch returns err: GetVal / Peek return (limiter.Context{}, err).
Fail(c, e) ==
    [c EXCEPT !.pc = "done", !.err = e, !.lctx = ZeroCtx, !.watch = "none"]

\* onWatch stored lctx and returned nil: the call returns (lctx, nil).
Succeed(c, expiration, count) ==
    [c EXCEPT !.pc = "done", !.err = "nil", !.watch = "none",
              !.lctx = GetContextFromState(expiration, count)]

\* The loop bound off by one: i <= store.MaxRetry.
RetryOnceMore(c) ==
    IF c.i + 1 <= MaxRetry THEN [c EXCEPT !.i = @ + 1]
    ELSE Fail([c EXCEPT !.i = @ + 1], "RetryExhausted")

\* The for loops of doSetValue and doPeekValue after a failed attempt.
RetryOrGiveUp(c) ==
    IF c.i + 1 < MaxRetry THEN [c EXCEPT !.i = @ + 1]
    ELSE Fail([c EXCEPT !.i = @ + 1], "RetryExhausted")

\* doUpdateValue looping on every error, as doSetValue does.
DoUpdateValueAlwaysRetries(c, ttl, e) == RetryOrGiveUp(c)

\* The for loop of doUpdateValue after updateValue returned (_, ttl, e).
DoUpdateValueNext(c, ttl, e) ==
    IF ttl < 0 THEN Fail(c, e) ELSE RetryOrGiveUp(c)

\* The repair taken only on the key-absent sentinel.
NeedsRepairWhenAbsent(ttl) == ttl < NoExpire

\* updateValue: "If ttl is negative, we have to define key expiration."
NeedsRepair(ttl) == ttl < 0

\* The expiration taken from the window whatever the ttl.
ExpirationOfWindow(c, ttl) == c.now + window

\* The expiration taken from the ttl whatever its sign.
ExpirationOfAnyTTL(c, ttl) == c.now + ttl

\* expiration := now.Add(rate.Period); if ttl > 0 { now.Add(ttl) }.
ExpirationOf(c, ttl) == IF ttl > 0 THEN c.now + ttl ELSE c.now + window

Conflicted(c) == [c EXCEPT !.watch = "none", !.conflicts = @ + 1]
IOFailed(c) == [c EXCEPT !.watch = "none", !.errors = @ + 1]
\* EXEC ran the batch (and so dropped the WATCH), one reply is unusable.
ParseFailed(c) ==
    [c EXCEPT !.watch = "none", !.errors = @ + 1, !.found = "malformed"]

\* Caller p moves on to c in the calls cs; a call that returns leaves its
\* caller idle and hands what it returned to ret.
Move(p, cs, c) ==
    /\ call' = [cs EXCEPT ![p] = IF Returned(c) THEN NoCall ELSE c]
    /\ ret' = IF Returned(c) THEN c ELSE NoCall

\* Store I/O failures strike one call of a run, any of its attempts.
CanFail(c) == ~faulty \/ c.errors > 0

KeptCounters == <<okCalls, okSum, okCounts>>
Config == <<MaxRetry, window>>

\* A GetVal call returned success with this count.
CountSuccess(c, count) ==
    IF reclaimed THEN UNCHANGED KeptCounters
    ELSE /\ okCalls' = okCalls + 1
         /\ okSum' = okSum + c.val
         /\ okCounts' = okCounts \cup {count}

\* The place of a successful GetVal among those of the first window.
SeqNo == IF reclaimed THEN 0 ELSE okCalls + 1

\* ----------------------------------------------------------------- actions
\* The callers are interchangeable: the one that makes the first call of a
\* run is named first in FirstCaller.
FirstCaller == CHOOSE p \in Procs : TRUE

CanBegin(p) ==
    /\ ~Running(call[p])
    /\ calls < MaxCalls
    /\ calls = 0 => p = FirstCaller

\* GetVal / Peek up to client.Watch: read the clock, WATCH the key.
Begin(p, op, v) ==
    /\ CanBegin(p)
    /\ calls' = calls + 1
    /\ overlap' = (overlap \/ \E q \in Procs \ {p} : Running(call[q]))
    /\ call' = [call EXCEPT ![p] =
                  [NoCall EXCEPT !.pc = IF op = "GetVal" THEN "doSetValue"
                                        ELSE "doPeekValue",
                                 !.op = op, !.val = v, !.now = now,
                                 !.watch = "clean"]]
    /\ ret' = NoCall
    /\ UNCHANGED <<now, store, Config, faulty, reclaimed, KeptCounters>>

GetVal(p) == \E v \in Amounts : Begin(p, "GetVal", v)

Peek(p) == Begin(p, "Peek", 0)

\* onWatch without the early return of the creator: the call that created
\* the key goes on to doUpdateValue.
SetValueCreatedFallsThrough(p) ==
    LET c == call[p]
        s == SetNX(store, c.val, window, now)
        d == [c EXCEPT !.pc = "doUpdateValue", !.i = 0,
                       !.created = TRUE, !.first = "absent",
                       !.applied = @ + 1]
    IN  /\ c.pc = "doSetValue"
        /\ ~store.exists
        /\ store' = s
        /\ Move(p, Touch(call), d)
        /\ UNCHANGED <<now, Config, calls, faulty, reclaimed, overlap,
                       KeptCounters>>

\* setValue: SetNX found the key absent and created it.
SetValueCreated(p) ==
    LET c == call[p]
        s == SetNX(store, c.val, window, now)
        d == [Succeed(c, c.now + window, c.val) EXCEPT
                !.created = TRUE, !.first = "absent", !.found = "absent",
                !.at = now, !.born = s.born, !.applied = @ + 1,
                !.post = PeekObs(s, now), !.seqno = SeqNo]
    IN  /\ c.pc = "doSetValue"
        /\ ~store.exists
        /\ store' = s
        /\ Move(p, Touch(call), d)
        /\ CountSuccess(c, c.val)
        /\ UNCHANGED <<now, Config, calls, faulty, reclaimed, overlap>>

\* setValue with a plain SET: the caller that finds the key overwrites it
\* and takes itself for the creator.
SetValueOverwrites(p) ==
    LET c == call[p]
        s == SetNX(Absent, c.val, window, now)
        d == [Succeed(c, c.now + window, c.val) EXCEPT
                !.created = TRUE, !.first = "present", !.found = "present",
                !.at = now, !.born = s.born, !.applied = @ + 1,
                !.post = PeekObs(s, now), !.seqno = SeqNo]
    IN  /\ c.pc = "doSetValue"
        /\ store.exists
        /\ store' = s
        /\ Move(p, Touch(call), d)
        /\ CountSuccess(c, c.val)
        /\ UNCHANGED <<now, Config, calls, faulty, reclaimed, overlap>>

\* setValue: SetNX found the key; onWatch goes on to doUpdateValue.
SetValueExists(p) ==
    LET c == call[p]
    IN  /\ c.pc = "doSetValue"
        /\ store.exists
        /\ Move(p, call, [c EXCEPT !.pc = "doUpdateValue", !.i = 0,
                                    !.first = "present"])
        /\ UNCHANGED <<now, store, Config, calls, faulty, reclaimed, overlap,
                       KeptCounters>>

\* setValue returned an error: doSetValue loops.
SetValueError(p) ==
    LET c == call[p]
    IN  /\ c.pc = "doSetValue"
        /\ CanFail(c)
        /\ faulty' = TRUE
        /\ Move(p, call, RetryOrGiveUp(IOFailed(c)))
        /\ UNCHANGED <<now, store, Config, calls, reclaimed, overlap,
                       KeptCounters>>

\* An EXEC that reports the conflict after it has run the batch.
UpdateValueConflictApplies(p) ==
    LET c == call[p]
        e == [Conflicted(c) EXCEPT !.applied = @ + 1]
    IN  /\ c.pc = "doUpdateValue"
        /\ c.watch = "dirty"
        /\ store' = IncrBy(store, c.val, now)
        /\ Move(p, Touch(call), DoUpdateValueNext(e, 0, "TxFailed"))
        /\ UNCHANGED <<now, Config, calls, faulty, reclaimed, overlap,
                       KeptCounters>>

\* updateValue: EXEC was aborted, the watched key had changed.
UpdateValueConflict(p) ==
    LET c == call[p]
    IN  /\ c.pc = "doUpdateValue"
        /\ c.watch = "dirty"
        /\ Move(p, call, DoUpdateValueNext(Conflicted(c), 0, "TxFailed"))
        /\ UNCHANGED <<now, store, Config, calls, faulty, reclaimed, overlap,
                       KeptCounters>>

\* updateValue: pipe.Exec failed.
UpdateValueError(p) ==
    LET c == call[p]
    IN  /\ c.pc = "doUpdateValue"
        /\ CanFail(c)
        /\ faulty' = TRUE
        /\ Move(p, call, DoUpdateValueNext(IOFailed(c), 0, "IOError"))
        /\ UNCHANGED <<now, store, Config, calls, reclaimed, overlap,
                       KeptCounters>>

\* updateValue: MULTI INCRBY PTTL EXEC committed.  A negative ttl leads to
\* the repair, any other ttl to the return of onWatch.
UpdateValueCommit(p) ==
    LET c == call[p]
        s == IncrBy(store, c.val, now)
        count == s.val
        ttl == PTTL(s, now)
        e == [c EXCEPT !.count = count, !.ttl = ttl, !.watch = "none",
                       !.found = IF store.exists THEN "present" ELSE "absent",
                       !.at = now, !.born = s.born,
                       !.applied = @ + 1, !.post = PeekObs(s, now)]
    IN  /\ c.pc = "doUpdateValue"
        /\ c.watch # "dirty"
        /\ ~NotInteger(store)
        /\ store' = s
        /\ IF NeedsRepair(ttl)
           THEN /\ Move(p, Touch(call), [e EXCEPT !.pc = "Expire"])
                /\ UNCHANGED KeptCounters
           ELSE /\ Move(p, Touch(call),
                        [Succeed(e, ExpirationOf(c, ttl), count)
                           EXCEPT !.seqno = SeqNo])
                /\ CountSuccess(c, count)
        /\ UNCHANGED <<now, Config, calls, faulty, reclaimed, overlap>>

\* updateValue: EXEC ran the batch, INCRBY replied that the value is not an
\* integer and changed nothing; pipe.Exec returns that error.
UpdateValueMalformed(p) ==
    LET c == call[p]
    IN  /\ c.pc = "doUpdateValue"
        /\ c.watch # "dirty"
        /\ NotInteger(store)
        /\ Move(p, call,
                DoUpdateValueNext(ParseFailed(c), 0, "MalformedValue"))
        /\ UNCHANGED <<now, store, Config, calls, faulty, reclaimed, overlap,
                       KeptCounters>>

\* updateValue: the repair rtx.Expire(key, expiration) took effect.
ExpireOk(p) ==
    LET c == call[p]
        s == Expire(store, window, now)
        d == [Succeed(c, ExpirationOf(c, c.ttl), c.count) EXCEPT
                !.repairs = @ + 1, !.post = PeekObs(s, now),
                !.seqno = SeqNo]
    IN  /\ c.pc = "Expire"
        /\ store.exists
        /\ store' = s
        /\ Move(p, Touch(call), d)
        /\ CountSuccess(c, c.count)
        /\ UNCHANGED <<now, Config, calls, faulty, reclaimed, overlap>>

\* updateValue: the repair found no key ("cannot configure timeout on key").
ExpireMissing(p) ==
    LET c == call[p]
    IN  /\ c.pc = "Expire"
        /\ ~store.exists
        /\ Move(p, call,
                DoUpdateValueNext([c EXCEPT !.post = PeekObs(store, now)],
                                  c.ttl, "CannotSetExpiration"))
        /\ UNCHANGED <<now, store, Config, calls, faulty, reclaimed, overlap,
                       KeptCounters>>

\* updateValue: the repair command itself failed.
ExpireError(p) ==
    LET c == call[p]
    IN  /\ c.pc = "Expire"
        /\ CanFail(c)
        /\ faulty' = TRUE
        /\ Move(p, call, DoUpdateValueNext(IOFailed(c), c.ttl, "IOError"))
        /\ UNCHANGED <<now, store, Config, calls, reclaimed, overlap,
                       KeptCounters>>

\* peekValue: EXEC was aborted, the watched key had changed.
PeekValueConflict(p) ==
    LET c == call[p]
    IN  /\ c.pc = "doPeekValue"
        /\ c.watch = "dirty"
        /\ Move(p, call, RetryOrGiveUp(Conflicted(c)))
        /\ UNCHANGED <<now, store, Config, calls, faulty, reclaimed, overlap,
                       KeptCounters>>

\* peekValue: pipe.Exec failed.
PeekValueError(p) ==
    LET c == call[p]
    IN  /\ c.pc = "doPeekValue"
        /\ CanFail(c)
        /\ faulty' = TRUE
        /\ Move(p, call, RetryOrGiveUp(IOFailed(c)))
        /\ UNCHANGED <<now, store, Config, calls, reclaimed, overlap,
                       KeptCounters>>

\* peekValue reading with GETEX, which re-arms the time-to-live it reads.
PeekValueRefreshes(p) ==
    LET c == call[p]
        o == PeekObs(store, now)
        k == IF store.exists THEN "present" ELSE "absent"
        e == [c EXCEPT !.count = o.count, !.ttl = o.ttl,
                       !.first = k, !.found = k, !.at = now,
                       !.born = store.born, !.post = PeekObs(store, now)]
    IN  /\ c.pc = "doPeekValue"
        /\ c.watch # "dirty"
        /\ ~NotInteger(store)
        /\ store' = Expire(store, window, now)
        /\ Move(p, call, Succeed(e, ExpirationOf(c, o.ttl), o.count))
        /\ UNCHANGED <<now, Config, calls, faulty, reclaimed, overlap,
                       KeptCounters>>

\* peekValue: MULTI GET PTTL EXEC committed.
PeekValueCommit(p) ==
    LET c == call[p]
        o == PeekObs(store, now)
        k == IF store.exists THEN "present" ELSE "absent"
        e == [c EXCEPT !.count = o.count, !.ttl = o.ttl,
                       !.first = k, !.found = k, !.at = now,
                       !.born = store.born, !.post = PeekObs(store, now)]
    IN  /\ c.pc = "doPeekValue"
        /\ c.watch # "dirty"
        /\ ~NotInteger(store)
        /\ Move(p, call, Succeed(e, ExpirationOf(c, o.ttl), o.count))
        /\ UNCHANGED <<now, store, Config, calls, faulty, reclaimed, overlap,
                       KeptCounters>>

\* peekValue: EXEC ran the batch, value.Int64() cannot parse the string
\* that GET returned.
PeekValueMalformed(p) ==
    LET c == call[p]
    IN  /\ c.pc = "doPeekValue"
        /\ c.watch # "dirty"
        /\ NotInteger(store)
        /\ Move(p, call, RetryOrGiveUp(ParseFailed(c)))
        /\ UNCHANGED <<now, store, Config, calls, faulty, reclaimed, overlap,
                       KeptCounters>>

\* While the key is absent and no call is in flight, once the last call
\* has returned, and while the key holds a value that is not an integer
\* (it has no expiration and no call on it succeeds), the passing of time
\* changes nothing a call can observe.
TimeMatters ==
    /\ ~NotInteger(store)
    /\ \/ \E p \in Procs : Running(call[p])
       \/ store.exists /\ calls < MaxCalls

\* The clock advances; the store reclaimed the key once its expiration has
\* passed.  Redis 6.0.9 and later abort a transaction watching the reclaimed
\* key, earlier versions do not.
Tick ==
    /\ now < MaxTime
    /\ TimeMatters
    /\ now' = now + 1
    /\ IF store.exists /\ store.exp # NoExpire /\ now + 1 > store.exp
       THEN /\ store' = Absent
            /\ reclaimed' = TRUE
            /\ okCalls' = 0 /\ okSum' = 0 /\ okCounts' = {}
            /\ \E aborts \in BOOLEAN :
                 call' = IF aborts THEN Touch(call) ELSE call
       ELSE UNCHANGED <<store, reclaimed, call, KeptCounters>>
    /\ ret' = NoCall
    /\ UNCHANGED <<Config, calls, faulty, overlap>>

Next ==
    \/ \E p \in Procs : GetVal(p)
    \/ \E p \in Procs : Peek(p)
    \/ \E p \in Procs : SetValueCreated(p)
    \/ \E p \in Procs : SetValueExists(p)
    \/ \E p \in Procs : SetValueError(p)
    \/ \E p \in Procs : UpdateValueConflict(p)
    \/ \E p \in Procs : UpdateValueError(p)
    \/ \E p \in Procs : UpdateValueCommit(p)
    \/ \E p \in Procs : UpdateValueMalformed(p)
    \/ \E p \in Procs : ExpireOk(p)
    \/ \E p \in Procs : ExpireMissing(p)
    \/ \E p \in Procs : ExpireError(p)
    \/ \E p \in Procs : PeekValueConflict(p)
    \/ \E p \in Procs : PeekValueError(p)
    \/ \E p \in Procs : PeekValueCommit(p)
    \/ \E p \in Procs : PeekValueMalformed(p)
    \/ Tick

Spec == Init /\ [][Next]_vars

\* ------------------------------------------------------------- properties
Quiescent == \A p \in Procs : ~Running(call[p])
RetGetVal == Returned(ret) /\ ret.op = "GetVal"
RetPeek == Returned(ret) /\ ret.op = "Peek"
RetOk == ret.err = "nil"

\* C1: increments of racing GetVal calls inside one window are linearizable:
\* a call that returns success has applied its amount exactly once, the
\* successful calls return pairwise distinct counts, and once all calls have
\* returned the stored counter is the sum of the amounts (with amount 1, the
\* number) of the successful calls.
C1_Linearizable ==
    /\ (RetGetVal /\ RetOk) => ret.applied = 1
    /\ ~reclaimed => Cardinality(okCounts) = okCalls
    /\ (~reclaimed /\ Quiescent) => (Get(store) = okSum /\ okSum = okCalls)

\* Two calls raced, one of them was aborted by a conflict, retried and
\* returned success.
C1_Witness ==
    /\ RetGetVal /\ RetOk /\ ret.conflicts > 0 /\ ret.applied = 1
    /\ overlap /\ ~reclaimed /\ Quiescent
    /\ okCalls >= 2 /\ Get(store) = okCalls

\* C2: N sequential GetVal(key, 1) calls inside one window, with no other
\* writer, return the counts 1, 2, ..., N in order.
C2_Sequential ==
    (RetGetVal /\ RetOk /\ ~overlap /\ ~reclaimed)
        => ret.lctx.count = ret.seqno

\* The third successful call of a sequential run returned 3.
C2_Witness ==
    /\ RetGetVal /\ RetOk /\ ~overlap /\ ~reclaimed
    /\ ret.seqno = 3 /\ ret.lctx.count = 3

\* C3: the first GetVal(key, 1) on an absent key returns count 1 and
\* expiration now + window, and leaves the key stored with value 1 and a
\* time-to-live equal to window.
C3_FirstCall ==
    (RetGetVal /\ ret.first = "absent")
        => /\ RetOk
           /\ ret.lctx = [count |-> ret.val, expiration |-> ret.now + window]
           /\ ret.val = 1
           /\ ret.post = [count |-> 1, ttl |-> window]

\* A GetVal found the key absent and has returned.
C3_Witness ==
    RetGetVal /\ ret.first = "absent" /\ ret.found = "absent" /\ ret.created

\* C4: after the window has elapsed and the store has reclaimed the key, the
\* next GetVal(key, 1) treats the key as absent and returns count 1 with the
\* expiration now + window; a call made before the window elapsed reports
\* the expiration fixed at creation, creation + window.  (Read for the calls
\* that commit at the instant they read the clock, so that the latency of a
\* call is not held against the claim.)
C4_FixedWindow ==
    (RetGetVal /\ RetOk /\ ret.at = ret.now)
        => IF ret.found = "absent"
           THEN ret.lctx = [count |-> 1, expiration |-> ret.now + window]
           ELSE ret.at < ret.born + window
                    => ret.lctx.expiration = ret.born + window

\* C5: Peek is read-only: no step of a Peek call, whether the call succeeds
\* or fails, changes the value, the time-to-live or the existence of the
\* key, hence nothing a GetVal that follows can return.
C5_PeekReadOnly ==
    [][\A p \in Procs :
          (call[p].op = "Peek"
             /\ (call'[p].pc # call[p].pc \/ call'[p].i # call[p].i))
          => store' = store]_vars

\* A Peek returned the count of an existing counter that the GetVal calls
\* before it had raised to 2, and the counter is still as it was.
C5_Witness ==
    /\ RetPeek /\ RetOk /\ ret.found = "present"
    /\ ret.lctx.count = 2 /\ store.exists /\ store.val = 2

\* C6 as claimed: Peek on an absent key succeeds and reports count 0 and
\* ttl 0; its expiration is now + window and the key is not created.
C6_PeekAbsentTTLZero ==
    (RetPeek /\ ret.found = "absent")
        => /\ RetOk
           /\ ret.count = 0 /\ ret.ttl = 0
           /\ ret.lctx = [count |-> 0, expiration |-> ret.now + window]
           /\ ret.post = PeekObs(Absent, ret.at)

\* C6 as amended: Peek on an absent key succeeds and reports count 0 and
\* the key-absent sentinel of PTTL (-2) as ttl; its expiration is
\* now + window and the key is not created, so that a GetVal that follows
\* finds it absent.
C6_PeekAbsent ==
    (RetPeek /\ ret.found = "absent")
        => /\ RetOk
           /\ ret.count = 0 /\ ret.ttl = KeyAbsent
           /\ ret.lctx = [count |-> 0, expiration |-> ret.now + window]
           /\ ret.post = PeekObs(Absent, ret.at)

\* A Peek found the key absent and has returned; the key is still absent.
C6_Witness == RetPeek /\ ret.found = "absent" /\ ~store.exists

C8_OnlyConflictsRetried ==
    /\ \A p \in Procs : call[p].errors = 0
    /\ (Returned(ret) /\ ret.errors > 0)
          => (ret.errors = 1 /\ ret.err = "IOError")

\* C9: a counter expires no later than one window after it came into
\* existence (its creation, or the increment that created it without an
\* expiration); no later or concurrent call pushes its expiration beyond.
C9_ExpiresWithinWindow ==
    (store.exists /\ store.exp # NoExpire)
        => store.exp <= store.born + window

\* C10 as claimed: a GetVal that returns success after an increment that
\* observed a non-positive ttl has issued the repair, and a Peek right
\* after it observes a ttl in 1..window.
C10_RepairNonPositive ==
    (RetGetVal /\ RetOk /\ ~ret.created /\ ret.ttl <= 0)
        => (ret.repairs = 1 /\ ret.post.ttl \in 1..window)

\* C10 as amended: the repair is issued when the observed ttl is negative
\* (no expiration set); a ttl of zero is left alone.
C10_RepairNegative ==
    /\ \A p \in Procs : call[p].pc = "Expire" <=> call[p].ttl < 0
    /\ (RetGetVal /\ RetOk /\ ~ret.created)
          => IF ret.ttl < 0
             THEN ret.repairs = 1 /\ ret.post.ttl \in 1..window
             ELSE ret.repairs = 0

\* A GetVal whose increment observed no expiration has repaired it and
\* returned.
C10_Witness ==
    RetGetVal /\ RetOk /\ ~ret.created /\ ret.ttl = NoExpire
        /\ ret.repairs = 1 /\ ret.post.ttl = window

\* C11: when the expire-setting repair finds the key gone, the GetVal call
\* returns at that step with the CannotSetExpiration failure and the empty
\* context, whatever is left of the retry budget: the increment it had
\* committed is its only one.
C11_CannotSetExpiration ==
    [][\A p \in Procs :
          (call[p].pc = "Expire" /\ ~store.exists /\ call'[p] # call[p])
          => /\ Returned(ret') /\ ret'.op = "GetVal"
             /\ ret'.lctx = ZeroCtx
             /\ ret'.applied = 1 /\ ret'.repairs = 0
             /\ ret'.i = call[p].i
             /\ ret'.err \in {"CannotSetExpiration", "IOError"}
             /\ ret'.errors = call[p].errors
                    => ret'.err = "CannotSetExpiration"]_vars

\* A GetVal whose repair found the key gone failed with CannotSetExpiration
\* at its first attempt, of a budget of at least two.
C11_Witness ==
    /\ RetGetVal /\ ret.err = "CannotSetExpiration"
    /\ ret.i = 0 /\ MaxRetry >= 2 /\ ret.applied = 1 /\ ~store.exists

\* C12: every call returns either a complete context and no error, or an
\* error and the empty context: a count or an expiration computed by a
\* call that fails is never returned with the error.
C12_AllOrNothing ==
    Returned(ret) =>
        IF ret.err = "nil"
        THEN /\ ret.lctx # ZeroCtx
             /\ ret.lctx.expiration > ret.now
             /\ ret.lctx.count = (IF ret.created THEN ret.val ELSE ret.count)
        ELSE /\ ret.lctx = ZeroCtx
             /\ ret.err \in {"RetryExhausted", "IOError",
                              "CannotSetExpiration"}

\* A GetVal failed after its increment had returned a count: it returned
\* the empty context.
C12_Witness ==
    RetGetVal /\ ~RetOk /\ ret.applied = 1 /\ ret.count > 0
        /\ ret.lctx = ZeroCtx

\* C13: a call that finds a value that is not an integer at the key fails
\* with the MalformedValue failure, and the value stays as it was.
C13_MalformedSurfaced ==
    (Returned(ret) /\ ret.found = "malformed")
        => (ret.err = "MalformedValue" /\ ret.lctx = ZeroCtx
              /\ store = Corrupted)

\* The attempts a returned call has made, over all its steps: those that
\* were aborted or failed, and the one that committed.
Attempts(c) ==
    c.conflicts + c.errors
        + (IF c.err \in {"nil", "CannotSetExpiration"} THEN 1 ELSE 0)

\* C14: MaxRetry is positive once the store is constructed, and every call
\* ends in success, RetryExhausted or a non-retryable error after at most
\* MaxRetry attempts, counted over the whole call (the create-if-absent
\* and the increment steps together).
C14_BudgetPerOperation ==
    /\ MaxRetry >= 1
    /\ \A p \in Procs : call[p].i < MaxRetry
    /\ Returned(ret) =>
          /\ ret.err \in {"nil", "RetryExhausted", "IOError",
                           "CannotSetExpiration", "MalformedValue"}
          /\ Attempts(ret) <= MaxRetry

\* C15: the expiration a call returns is a function of the clock it read
\* and of the ttl its batch observed: now + ttl when ttl > 0 and
\* now + window when ttl <= 0, for a GetVal on an existing key and for a
\* Peek; now + window for the GetVal that created the key.
C15_ExpirationFromTTL ==
    (Returned(ret) /\ RetOk) =>
        /\ ret.lctx.expiration =
              (IF ret.created THEN ret.now + window
               ELSE IF ret.ttl > 0 THEN ret.now + ret.ttl
               ELSE ret.now + window)
        /\ (~ret.created /\ ret.repairs = 0) => ret.ttl = ret.post.ttl

\* A GetVal read the clock, committed its increment one instant later on a
\* key with a positive ttl shorter than the window, and returned
\* now + ttl.
C15_Witness ==
    /\ RetGetVal /\ RetOk /\ ~ret.created
    /\ ret.at > ret.now /\ ret.ttl > 0 /\ ret.ttl < window
    /\ ret.lctx.expiration = ret.now + ret.ttl

\* The call of caller p as the step leaves it: what it returned, if the
\* step is its return.
After(p) ==
    IF Running(call[p]) /\ ~Running(call'[p]) THEN ret' ELSE call'[p]

\* C16: of the GetVal callers that race on an absent key, exactly one
\* creates the counter and returns its amount; the others find the key and
\* go on to the increment step, and every value committed to the counter
\* while it lives is above the one before it.
C16_OneCreator ==
    [][/\ \A p \in Procs :
            /\ After(p).created =>
                  /\ ~store.exists /\ store'.exists
                  /\ store'.val = After(p).val
                  /\ After(p).lctx.count = After(p).val
                  /\ After(p).err = "nil"
            /\ (call[p].pc = "doSetValue" /\ call'[p].pc # call[p].pc
                   /\ store.exists /\ After(p).errors = call[p].errors)
                  => (call'[p].pc = "doUpdateValue" /\ ~call'[p].created
                        /\ store' = store)
            /\ After(p).applied > call[p].applied =>
                  (store'.exists /\ store'.val = Get(store) + After(p).val
                     /\ store'.val > Get(store))
       /\ (store.exists /\ store'.exists /\ store'.born = store.born)
             => store'.val >= store.val]_vars

\* Two callers raced on the absent key: one created the counter, the other
\* found it, incremented it and returned 2.
C16_Witness ==
    /\ RetGetVal /\ RetOk /\ ~ret.created /\ ret.first = "present"
    /\ overlap /\ ~reclaimed /\ store.born > 0 /\ okCalls = 2
    /\ ret.lctx.count = 2 /\ store.val = 2

\* C17: in one GetVal call the create-if-absent and the increment steps
\* exclude each other and leave no third way: the call that created the
\* key issues no increment (the key holds its amount, once), the call
\* that found the key goes on to the increment step, whose INCRBY is
\* issued without another look at the existence of the key.
C17_CreateOrIncrement ==
    /\ \A p \in Procs :
          call[p].pc \in {"doUpdateValue", "Expire"}
              => (call[p].op = "GetVal" /\ ~call[p].created
                    /\ call[p].first = "present")
    /\ RetGetVal =>
          /\ ret.created =>
                /\ ret.first = "absent" /\ ret.applied = 1
                /\ ret.count = 0 /\ ret.repairs = 0 /\ ret.conflicts = 0
                /\ ret.post.count = ret.val
                /\ store.exists /\ store.val = ret.val
          /\ ~ret.created =>
                \/ ret.first = "none" /\ ret.err = "RetryExhausted"
                      /\ ret.errors = MaxRetry /\ ret.applied = 0
                \/ ret.first = "present"
                      /\ ret.applied + ret.conflicts + ret.errors >= 1
                      /\ RetOk => (ret.applied = 1 /\ ret.count >= ret.val)
          /\ (RetOk /\ ~ret.created /\ ret.found = "absent")
                => ret.count = ret.val

\* One caller created the counter and returned, the key holds its amount
\* once; another caller, whose SETNX had found the counter of the window
\* before, is at its increment step.
C17_Witness ==
    /\ RetGetVal /\ ret.created /\ store.val = ret.val
    /\ \E p \in Procs :
          call[p].pc = "doUpdateValue" /\ call[p].first = "present"

\* C18: every attempt of the increment, the re-attempts after a conflict
\* included, runs under a WATCH of the key: its batch commits only from a
\* watch that has seen no change of the key.  (The calls that met no
\* other failure than conflicts.)
C18_RetriesUnderWatch ==
    [][\A p \in Procs :
          (call[p].pc = "doUpdateValue" /\ call[p].errors = 0
             /\ After(p).applied > call[p].applied)
          => call[p].watch = "clean"]_vars

\* C19: a GetVal that fails with RetryExhausted after every one of its
\* increment attempts was aborted by a conflict has written nothing: none
\* of its steps changed the key, whose value and time-to-live are what the
\* other callers left.
C19_FailedCallWritesNothing ==
    /\ [](RetGetVal /\ ret.err = "RetryExhausted" /\ ret.errors = 0
             => /\ ret.applied = 0 /\ ret.repairs = 0 /\ ~ret.created
                /\ ret.conflicts = MaxRetry
                /\ (~reclaimed /\ Quiescent) => Get(store) = okSum)
    /\ [][\A p \in Procs :
             (call[p].op = "GetVal"
                /\ (call'[p].pc # call[p].pc \/ call'[p].i # call[p].i)
                /\ After(p).applied = call[p].applied
                /\ After(p).repairs = call[p].repairs)
             => store' = store]_vars

\* A GetVal ran out of its budget on conflicts alone; the counter holds
\* the sum of what the successful callers added.
C19_Witness ==
    /\ RetGetVal /\ ret.err = "RetryExhausted" /\ ret.errors = 0
    /\ ret.conflicts = MaxRetry /\ ret.applied = 0
    /\ ~reclaimed /\ Quiescent /\ okCalls >= 2
    /\ store.exists /\ store.val = okSum

\* C20: whenever no GetVal call is between the commit of its increment
\* and its expire-setting repair, a counter that exists has an expiration
\* set, at most one window ahead: no counter is left that never expires.
\* (The last instant of a counter's life, where PTTL reports 0, is taken
\* as within the claim.)
C20_CounterExpires ==
    ((\A p \in Procs : call[p].pc # "Expire")
        /\ store.exists /\ ~NotInteger(store))
        => (store.exp # NoExpire /\ PTTL(store, now) \in 0..window)

====
